---------------------------- MODULE Spec2Model ----------------------------
(***************************************************************************)
(* The synchronisation engine of code-notes (web build): the Dexie         *)
(* database with its four entity tables, the _pendingChanges tombstone     *)
(* queue and the _syncMeta key/value table; the CRUD adapters that write   *)
(* them; IndexedDBSyncStorage; and IndexedDBSyncAdapter.syncNow(), split   *)
(* at its awaits.                                                          *)
(*                                                                         *)
(* A row's domain fields are abstracted to one field, data.  The JS value  *)
(* undefined of the numeric fields sync_version and synced_at is Undef.    *)
(***************************************************************************)
EXTENDS Integers, Sequences, FiniteSets, TLC

(***************************************************************************)
(* Bounds of the model.                                                    *)
(***************************************************************************)
\* Local updates of a row stop once its sync_version reaches MaxVersion.
MaxVersion == 2
\* The clock (seconds) runs from 1 to MaxTime.
MaxTime == 2
\* A row is not deleted locally while MaxTombstones tombstones of it wait in
\* the queue (a pull can bring a deleted row back, and it can be deleted
\* again).
MaxTombstones == 1
\* A pull batch of SpecPull holds at most MaxBatch records.
MaxBatch == 3
\* At most MaxCalls calls of initialize() wait for the token provider at a
\* time.
MaxCalls == 2

\* JS undefined / null for sync_version, synced_at and lastSyncAt.
Undef == 0

TopicIds == {"t1"}
QuestionIds == {"q1"}
SessionIds == {"s1"}
\* Contents of a row's domain fields (the dto of a create or update).
Data == {"x", "y"}
\* What a tombstone's SyncRecord carries as data ({}).
EmptyData == ""
\* Checkpoints the server can return, and the value of an absent one.
Checkpoints == {"ck-1", "ck-2"}
NoCheckpoint == "undefined"

VARIABLES
    db,              \* the Dexie database: tables, _pendingChanges, _syncMeta
    now,             \* getCurrentTimestamp()
    clientTokens,    \* QmSyncClient: the tokens held in memory
    initialized,     \* IndexedDBSyncAdapter.initialized
    pc,              \* where the syncNow() call in progress stands
    provided,        \* syncNow: what config.getTokens() returned
    pendingChanges,  \* syncNow: const pendingChanges
    checkpoint,      \* syncNow: const checkpoint
    response,        \* syncNow: const response
    result,          \* what syncNow() returned (or that it rejected)
    pre,             \* the database when the call in progress began
    interleaved,     \* a CRUD write happened during the call in progress
    usedIds,         \* ids uuidv4() has returned or the server has sent
    quiet,           \* history: the last call that returned was a success
                     \* in which the server accepted every pushed row, and
                     \* no CRUD handler has run from its start to the start
                     \* of the call in progress (to now, when there is none)
    serverCheckpoint, \* history: the checkpoint of the pull part of the
                     \* most recent successful call (NoCheckpoint when none)
    initializing,    \* the initialize() calls waiting for config.getTokens()
    loads            \* history: the times initialize() has called
                     \* config.getTokens() since construction or the last
                     \* logout()

vars == <<db, now, clientTokens, initialized, pc, provided, pendingChanges,
          checkpoint, response, result, pre, interleaved, usedIds, quiet,
          serverCheckpoint, initializing, loads>>

syncLocals == <<provided, pendingChanges, checkpoint, response, result, pre,
                interleaved>>

(***************************************************************************)
(* Sequence helpers.                                                       *)
(***************************************************************************)
Range(s) == {s[i] : i \in 1..Len(s)}

RECURSIVE SeqOfSet(_)
\* toArray(): the rows of a table in primary-key order (one fixed order).
SeqOfSet(S) ==
    IF S = {} THEN <<>>
    ELSE LET x == CHOOSE y \in S : TRUE IN <<x>> \o SeqOfSet(S \ {x})

(***************************************************************************)
(* database.ts                                                             *)
(***************************************************************************)
\* A table with no row, and the table t without / with the row of key id.
EmptyTable == [k \in {} |-> Undef]

TableDelete(t, id) == [k \in (DOMAIN t) \ {id} |-> t[k]]

TablePut(t, id, row) == [k \in (DOMAIN t) \cup {id} |-> IF k = id THEN row ELSE t[k]]

EmptyDB ==
    [topics |-> EmptyTable, questions |-> EmptyTable, progress |-> EmptyTable,
     quizSessions |-> EmptyTable, pendingChanges |-> <<>>, syncMeta |-> EmptyTable]

EntityTables == {"topics", "questions", "progress", "quizSessions"}

\* trackDelete(tableName, id, syncVersion): db._pendingChanges.add(...)
trackDelete(d, tableName, id, syncVersion) ==
    [d EXCEPT !.pendingChanges =
        Append(@, [tableName |-> tableName, rowId |-> id,
                   operation |-> "delete", data |-> EmptyData,
                   version |-> (IF syncVersion = Undef THEN 0 ELSE syncVersion) + 1])]

\* db.getSyncMeta(key): record?.value
getSyncMeta(d, key) ==
    IF key \in DOMAIN d.syncMeta THEN d.syncMeta[key] ELSE <<>>

\* getCurrentTimestamp(): Math.floor(Date.now() / 1000)
getCurrentTimestamp == now

\* db.setSyncMeta(key, value): _syncMeta.put({key, value})
setSyncMeta(d, key, value) ==
    [d EXCEPT !.syncMeta = TablePut(@, key, value)]

(***************************************************************************)
(* The CRUD adapters.  Each is one handler of the UI; it can run while no  *)
(* sync is in progress or while a sync waits for the server's response.    *)
(***************************************************************************)
Suspended == pc \in {"idle", "inflight"}

\* The frame of a CRUD handler: it leaves the sync adapter alone.
CrudFrame ==
    /\ interleaved' = (pc # "idle")
    /\ quiet' = (quiet /\ pc # "idle")
    /\ UNCHANGED <<now, clientTokens, initialized, pc, provided,
                   pendingChanges, checkpoint, response, result, pre,
                   serverCheckpoint, initializing, loads>>

\* (x || 0) + 1 of the update handlers
BumpVersion(v) == (IF v = Undef THEN 0 ELSE v) + 1

\* WebTopicsAdapter.create: id is a fresh uuid
TopicsCreate(id, dto) ==
    /\ Suspended
    /\ id \notin usedIds
    /\ db' = [db EXCEPT !.topics =
                TablePut(@, id, [data |-> dto, sync_version |-> 1,
                                 synced_at |-> Undef])]
    /\ usedIds' = usedIds \cup {id}
    /\ CrudFrame

\* WebTopicsAdapter.update
TopicsUpdate(id, dto) ==
    /\ Suspended
    /\ id \in DOMAIN db.topics
    /\ db.topics[id].sync_version < MaxVersion
    /\ db' = [db EXCEPT !.topics[id] =
                [@ EXCEPT !.data = dto,
                          !.sync_version = BumpVersion(@),
                          !.synced_at = Undef]]
    /\ UNCHANGED usedIds
    /\ CrudFrame

RECURSIVE TrackQuestionBeforeProgress(_, _)
\* The loop tracking a question's delete before its progress row's
TrackQuestionBeforeProgress(d, qs) ==
    IF qs = <<>> THEN d
    ELSE LET q == Head(qs)
             d1 == trackDelete(d, "questions", q, d.questions[q].sync_version)
             d2 == IF q \in DOMAIN d1.progress
                   THEN trackDelete(d1, "progress", q, d1.progress[q].sync_version)
                   ELSE d1
             d3 == [d2 EXCEPT !.progress = TableDelete(@, q)]
         IN TrackQuestionBeforeProgress(d3, Tail(qs))

RECURSIVE TrackChildDeletes(_, _)
\* WebTopicsAdapter.delete, the loop over the topic's questions
TrackChildDeletes(d, qs) ==
    IF qs = <<>> THEN d
    ELSE LET q == Head(qs)
             d1 == IF q \in DOMAIN d.progress
                   THEN trackDelete(d, "progress", q, d.progress[q].sync_version)
                   ELSE d
             d2 == [d1 EXCEPT !.progress = TableDelete(@, q)]
             d3 == trackDelete(d2, "questions", q, d2.questions[q].sync_version)
         IN TrackChildDeletes(d3, Tail(qs))

\* The body of WebTopicsAdapter.delete's transaction
TopicsDeleteTx(d, id) ==
    LET qs == SeqOfSet({q \in DOMAIN d.questions : d.questions[q].topicId = id})
        d1 == TrackChildDeletes(d, qs)
        d2 == [d1 EXCEPT !.questions =
                 [k \in {q \in DOMAIN @ : @[q].topicId # id} |-> @[k]]]
        d3 == IF id \in DOMAIN d2.topics
              THEN trackDelete(d2, "topics", id, d2.topics[id].sync_version)
              ELSE d2
    IN [d3 EXCEPT !.topics = TableDelete(@, id)]

\* The statements WebTopicsAdapter.delete's transaction executes, in order:
\* trackDelete(tableName, rowId, ...) and table.delete(rowId).
TrackStep(tableName, id) == [op |-> "trackDelete", tableName |-> tableName, rowId |-> id]

DeleteStep(tableName, id) == [op |-> "delete", tableName |-> tableName, rowId |-> id]

RECURSIVE ChildDeleteSteps(_, _)
ChildDeleteSteps(d, qs) ==
    IF qs = <<>> THEN <<>>
    ELSE LET q == Head(qs)
         IN (IF q \in DOMAIN d.progress THEN <<TrackStep("progress", q)>> ELSE <<>>)
            \o <<DeleteStep("progress", q), TrackStep("questions", q)>>
            \o ChildDeleteSteps(d, Tail(qs))

TopicsDeleteSteps(d, id) ==
    LET qs == SeqOfSet({q \in DOMAIN d.questions : d.questions[q].topicId = id})
    IN ChildDeleteSteps(d, qs)
       \o [i \in 1..Len(qs) |-> DeleteStep("questions", qs[i])]
       \o (IF id \in DOMAIN d.topics THEN <<TrackStep("topics", id)>> ELSE <<>>)
       \o <<DeleteStep("topics", id)>>

\* One statement of a transaction applied to the database
ApplyStep(d, step) ==
    IF step.op = "trackDelete"
    THEN trackDelete(d, step.tableName, step.rowId,
                     d[step.tableName][step.rowId].sync_version)
    ELSE [d EXCEPT ![step.tableName] = TableDelete(@, step.rowId)]

RECURSIVE ApplySteps(_, _)
ApplySteps(d, steps) ==
    IF steps = <<>> THEN d ELSE ApplySteps(ApplyStep(d, Head(steps)), Tail(steps))

\* The tombstones of a row that wait in the queue
Tombstones(d, tableName, id) ==
    Len(SelectSeq(d.pendingChanges,
                  LAMBDA c : c.tableName = tableName /\ c.rowId = id))

\* No row has more than MaxTombstones tombstones in the queue of d.
WithinTombstoneBound(d) ==
    \A i \in 1..Len(d.pendingChanges) :
        Tombstones(d, d.pendingChanges[i].tableName, d.pendingChanges[i].rowId)
            <= MaxTombstones

\* WebTopicsAdapter.delete
TopicsDelete(id) ==
    /\ Suspended
    /\ id \in DOMAIN db.topics
    /\ WithinTombstoneBound(TopicsDeleteTx(db, id))
    /\ db' = TopicsDeleteTx(db, id)
    /\ UNCHANGED usedIds
    /\ CrudFrame

\* WebQuestionsAdapter.create: id is a fresh uuid, dto.topicId a topic shown
QuestionsCreate(id, topicId, dto) ==
    /\ Suspended
    /\ id \notin usedIds
    /\ topicId \in DOMAIN db.topics
    /\ db' = [db EXCEPT !.questions =
                TablePut(@, id, [topicId |-> topicId, data |-> dto, tags |-> <<>>,
                                 sync_version |-> 1, synced_at |-> Undef])]
    /\ usedIds' = usedIds \cup {id}
    /\ CrudFrame

\* WebQuestionsAdapter.update
QuestionsUpdate(id, dto) ==
    /\ Suspended
    /\ id \in DOMAIN db.questions
    /\ db.questions[id].sync_version < MaxVersion
    /\ db' = [db EXCEPT !.questions[id] =
                [@ EXCEPT !.data = dto,
                          !.sync_version = BumpVersion(@),
                          !.synced_at = Undef]]
    /\ UNCHANGED usedIds
    /\ CrudFrame

\* The body of WebQuestionsAdapter.delete's transaction
QuestionsDeleteTx(d, id) ==
    LET d1 == IF id \in DOMAIN d.progress
              THEN trackDelete(d, "progress", id, d.progress[id].sync_version)
              ELSE d
        d2 == [d1 EXCEPT !.progress = TableDelete(@, id)]
        d3 == IF id \in DOMAIN d2.questions
              THEN trackDelete(d2, "questions", id, d2.questions[id].sync_version)
              ELSE d2
    IN [d3 EXCEPT !.questions = TableDelete(@, id)]

\* WebQuestionsAdapter.delete
QuestionsDelete(id) ==
    /\ Suspended
    /\ id \in DOMAIN db.questions
    /\ WithinTombstoneBound(QuestionsDeleteTx(db, id))
    /\ db' = QuestionsDeleteTx(db, id)
    /\ UNCHANGED usedIds
    /\ CrudFrame

\* WebProgressService.update: put({...existing}) or a new row without
\* sync_version and synced_at
ProgressUpdate(questionId, dto) ==
    /\ Suspended
    /\ questionId \in DOMAIN db.questions
    /\ LET existing ==
            IF questionId \in DOMAIN db.progress THEN db.progress[questionId]
            ELSE [topicId |-> db.questions[questionId].topicId, data |-> dto,
                  sync_version |-> Undef, synced_at |-> Undef]
       IN db' = [db EXCEPT !.progress =
                    TablePut(@, questionId, [existing EXCEPT !.data = dto])]
    /\ UNCHANGED usedIds
    /\ CrudFrame

\* WebProgressService.reset: put({...existing, status: "NotStudied", ...})
ProgressReset(questionId) ==
    /\ Suspended
    /\ questionId \in DOMAIN db.progress
    /\ db' = [db EXCEPT !.progress[questionId].data = "x"]
    /\ UNCHANGED usedIds
    /\ CrudFrame

\* WebQuizService.createSession: add(session), no sync_version, no synced_at
QuizCreateSession(id, dto) ==
    /\ Suspended
    /\ id \notin usedIds
    /\ db' = [db EXCEPT !.quizSessions =
                TablePut(@, id, [data |-> dto, sync_version |-> Undef,
                                 synced_at |-> Undef])]
    /\ usedIds' = usedIds \cup {id}
    /\ CrudFrame

\* WebQuizService.submitAnswer: put(session) with the result appended
QuizSubmitAnswer(sessionId, dto) ==
    /\ Suspended
    /\ sessionId \in DOMAIN db.quizSessions
    /\ db' = [db EXCEPT !.quizSessions[sessionId].data = dto]
    /\ UNCHANGED usedIds
    /\ CrudFrame

\* WebQuizService.completeSession: put(session) with completedAt set
QuizCompleteSession(sessionId) ==
    /\ Suspended
    /\ sessionId \in DOMAIN db.quizSessions
    /\ db' = [db EXCEPT !.quizSessions[sessionId].data = "y"]
    /\ UNCHANGED usedIds
    /\ CrudFrame

TopicsCrud ==
    \/ \E id \in TopicIds, dto \in Data : TopicsCreate(id, dto)
    \/ \E id \in TopicIds, dto \in Data : TopicsUpdate(id, dto)
    \/ \E id \in TopicIds : TopicsDelete(id)

(***************************************************************************)
(* IndexedDBSyncStorage                                                    *)
(***************************************************************************)
\* The SyncRecord of a row: tableName is the server's name of the table;
\* version: row.sync_version || 1
RowRecord(serverName, id, row) ==
    [tableName |-> serverName, rowId |-> id, data |-> row.data,
     version |-> IF row.sync_version = Undef THEN 1 ELSE row.sync_version,
     deleted |-> FALSE]

\* getPendingChanges, steps 1-4: the rows of one table whose synced_at is
\* undefined or null
UnsyncedOf(d, table, serverName) ==
    LET ids == SeqOfSet({k \in DOMAIN d[table] : d[table][k].synced_at = Undef})
    IN [i \in 1..Len(ids) |-> RowRecord(serverName, ids[i], d[table][ids[i]])]

\* getPendingChanges, step 5: one deleted record per queued delete
PendingDeleteRecord(change) ==
    [tableName |-> IF change.tableName = "quizSessions" THEN "quiz_sessions"
                   ELSE change.tableName,
     rowId |-> change.rowId, data |-> EmptyData, version |-> change.version,
     deleted |-> TRUE]

IsDelete(change) == change.operation = "delete"

getPendingChanges(d) ==
    LET pendingDeletes == SelectSeq(d.pendingChanges, IsDelete)
    IN UnsyncedOf(d, "topics", "topics")
       \o UnsyncedOf(d, "questions", "questions")
       \o UnsyncedOf(d, "progress", "progress")
       \o UnsyncedOf(d, "quizSessions", "quiz_sessions")
       \o [i \in 1..Len(pendingDeletes) |-> PendingDeleteRecord(pendingDeletes[i])]

\* getPendingChangesCount without the count of the queued deletes
getPendingChangesCountOfRows(d) ==
    Cardinality({k \in DOMAIN d.topics : d.topics[k].synced_at = Undef})
    + Cardinality({k \in DOMAIN d.questions : d.questions[k].synced_at = Undef})
    + Cardinality({k \in DOMAIN d.progress : d.progress[k].synced_at = Undef})
    + Cardinality({k \in DOMAIN d.quizSessions : d.quizSessions[k].synced_at = Undef})

getPendingChangesCount(d) ==
    Cardinality({k \in DOMAIN d.topics : d.topics[k].synced_at = Undef})
    + Cardinality({k \in DOMAIN d.questions : d.questions[k].synced_at = Undef})
    + Cardinality({k \in DOMAIN d.progress : d.progress[k].synced_at = Undef})
    + Cardinality({k \in DOMAIN d.quizSessions : d.quizSessions[k].synced_at = Undef})
    + Len(SelectSeq(d.pendingChanges, IsDelete))

serverToLocalTableName(tableName) ==
    IF tableName = "quiz_sessions" THEN "quizSessions" ELSE tableName

NoTable == "undefined"

getTable(tableName) ==
    CASE tableName = "topics" -> "topics"
      [] tableName = "questions" -> "questions"
      [] tableName = "progress" -> "progress"
      [] tableName \in {"quizSessions", "quiz_sessions"} -> "quizSessions"
      [] OTHER -> NoTable

getTableOrder(tableName) ==
    CASE tableName = "topics" -> 0
      [] tableName = "questions" -> 1
      [] tableName \in {"progress", "quiz_sessions", "quizSessions"} -> 2
      [] OTHER -> 99

\* markSynced with the queued delete of the record left in the queue
MarkOneKeepingTombstone(d, rec, ts) ==
    LET table == getTable(rec.tableName)
    IN IF table # NoTable /\ rec.rowId \in DOMAIN d[table]
       THEN [d EXCEPT ![table][rec.rowId].synced_at = ts]
       ELSE d

\* markSynced writing synced_at with put, whether the row exists or not
MarkOnePutting(d, rec, ts) ==
    LET localTableName == serverToLocalTableName(rec.tableName)
        Keep(c) == ~(c.tableName = localTableName /\ c.rowId = rec.rowId)
        d1 == [d EXCEPT !.pendingChanges = SelectSeq(@, Keep)]
        table == getTable(rec.tableName)
    IN IF table = NoTable THEN d1
       ELSE IF rec.rowId \in DOMAIN d1[table]
       THEN [d1 EXCEPT ![table][rec.rowId].synced_at = ts]
       ELSE [d1 EXCEPT ![table] = TablePut(@, rec.rowId,
               [data |-> EmptyData, sync_version |-> Undef, synced_at |-> ts])]

\* markSynced, one turn of the loop
MarkOne(d, rec, ts) ==
    LET localTableName == serverToLocalTableName(rec.tableName)
        Keep(c) == ~(c.tableName = localTableName /\ c.rowId = rec.rowId)
        d1 == [d EXCEPT !.pendingChanges = SelectSeq(@, Keep)]
        table == getTable(rec.tableName)
    IN IF table # NoTable /\ rec.rowId \in DOMAIN d1[table]
       THEN [d1 EXCEPT ![table][rec.rowId].synced_at = ts]
       ELSE d1

RECURSIVE MarkAll(_, _, _)
MarkAll(d, recordIds, ts) ==
    IF recordIds = <<>> THEN d
    ELSE MarkAll(MarkOne(d, Head(recordIds), ts), Tail(recordIds), ts)

\* markSynced removing the queue entries and leaving the rows unstamped
markSyncedInQueueOnly(d, recordIds) ==
    [d EXCEPT !.pendingChanges =
        SelectSeq(@, LAMBDA c : \A i \in 1..Len(recordIds) :
            ~(c.tableName = serverToLocalTableName(recordIds[i].tableName)
                /\ c.rowId = recordIds[i].rowId))]

\* markSynced(recordIds): one transaction
markSynced(d, recordIds) == MarkAll(d, recordIds, getCurrentTimestamp)

\* The encoded tags of a record's data: the tokens of a JSON text.  "[", the
\* tags, "]" is the text of an array of tags; JSON.parse throws on the
\* others.
IsTagsJSON(text) == Len(text) >= 2 /\ text[1] = "[" /\ text[Len(text)] = "]"

\* upsertRecord, questions, with the catch block leaving tags as received
decodeTagsKeepingRaw(text) ==
    IF text = <<>> THEN <<>>
    ELSE IF IsTagsJSON(text) THEN SubSeq(text, 2, Len(text) - 1)
    ELSE text

\* upsertRecord, questions: let tags = []; if (data.tags) { try { tags =
\* JSON.parse(data.tags) } catch { tags = [] } }
decodeTags(text) ==
    IF text = <<>> THEN <<>>
    ELSE IF IsTagsJSON(text) THEN SubSeq(text, 2, Len(text) - 1)
    ELSE <<>>

\* upsertRecord, progress: questionId: data.questionSyncUuid || record.rowId
ProgressKey(record) ==
    IF record.questionSyncUuid # "" THEN record.questionSyncUuid ELSE record.rowId

\* upsertRecord(record, syncedAt)
upsertRecord(d, record, syncedAt) ==
    CASE record.tableName = "topics" ->
           [d EXCEPT !.topics = TablePut(@, record.rowId,
               [data |-> record.data, sync_version |-> record.version,
                synced_at |-> syncedAt])]
      [] record.tableName = "questions" ->
           [d EXCEPT !.questions = TablePut(@, record.rowId,
               [topicId |-> record.topicId, data |-> record.data,
                tags |-> decodeTags(record.tags),
                sync_version |-> record.version, synced_at |-> syncedAt])]
      [] record.tableName = "progress" ->
           [d EXCEPT !.progress = TablePut(@, ProgressKey(record),
               [topicId |-> record.topicId, data |-> record.data,
                sync_version |-> record.version, synced_at |-> syncedAt])]
      [] record.tableName = "quiz_sessions" ->
           [d EXCEPT !.quizSessions = TablePut(@, record.rowId,
               [data |-> record.data, sync_version |-> record.version,
                synced_at |-> syncedAt])]
      [] OTHER -> d

\* deleteRecord trying every table when it does not know the record's
deleteRecordFromAnyTable(d, record) ==
    LET table == getTable(record.tableName)
    IN IF table = NoTable
       THEN [t \in DOMAIN d |->
               IF t \in EntityTables THEN TableDelete(d[t], record.rowId) ELSE d[t]]
       ELSE [d EXCEPT ![table] = TableDelete(@, record.rowId)]

\* deleteRecord(record)
deleteRecord(d, record) ==
    LET table == getTable(record.tableName)
    IN IF table = NoTable THEN d
       ELSE [d EXCEPT ![table] = TableDelete(@, record.rowId)]

RECURSIVE InsertAscending(_, _, _)
\* The comparison of the deleted records written like that of the others
InsertAscending(x, sorted, descending) ==
    IF sorted = <<>> THEN <<x>>
    ELSE LET h == Head(sorted)
         IN IF getTableOrder(h.tableName) <= getTableOrder(x.tableName)
            THEN <<h>> \o InsertAscending(x, Tail(sorted), descending)
            ELSE <<x>> \o sorted

RECURSIVE InsertByOrder(_, _, _)
\* Array.prototype.sort is stable: x goes after the records that do not
\* compare greater than it.
InsertByOrder(x, sorted, descending) ==
    IF sorted = <<>> THEN <<x>>
    ELSE LET h == Head(sorted)
             after == IF descending
                      THEN getTableOrder(h.tableName) >= getTableOrder(x.tableName)
                      ELSE getTableOrder(h.tableName) <= getTableOrder(x.tableName)
         IN IF after THEN <<h>> \o InsertByOrder(x, Tail(sorted), descending)
            ELSE <<x>> \o sorted

\* The records left in the order of the input array
Unsorted(records, descending) == records

RECURSIVE SortByOrder(_, _)
SortByOrder(records, descending) ==
    IF records = <<>> THEN <<>>
    ELSE InsertByOrder(records[Len(records)],
                       SortByOrder(SubSeq(records, 1, Len(records) - 1), descending),
                       descending)

IsDeleted(r) == r.deleted

NotDeleted(r) == ~r.deleted

RECURSIVE UpsertAll(_, _, _)
UpsertAll(d, records, syncedAt) ==
    IF records = <<>> THEN d
    ELSE UpsertAll(upsertRecord(d, Head(records), syncedAt), Tail(records), syncedAt)

RECURSIVE DeleteAll(_, _)
DeleteAll(d, records) ==
    IF records = <<>> THEN d
    ELSE DeleteAll(deleteRecord(d, Head(records)), Tail(records))

\* applyRemoteChanges handing no timestamp to upsertRecord
applyRemoteChangesUnstamped(d, records) ==
    LET nonDeleted == SortByOrder(SelectSeq(records, NotDeleted), FALSE)
        deleted == SortByOrder(SelectSeq(records, IsDeleted), TRUE)
    IN DeleteAll(UpsertAll(d, nonDeleted, Undef), deleted)

\* applyRemoteChanges with the loop of the deletes before that of the upserts
applyRemoteChangesDeletesFirst(d, records) ==
    LET nonDeleted == SortByOrder(SelectSeq(records, NotDeleted), FALSE)
        deleted == SortByOrder(SelectSeq(records, IsDeleted), TRUE)
    IN UpsertAll(DeleteAll(d, deleted), nonDeleted, getCurrentTimestamp)

\* applyRemoteChanges(records): one transaction
applyRemoteChanges(d, records) ==
    LET nonDeleted == SortByOrder(SelectSeq(records, NotDeleted), FALSE)
        deleted == SortByOrder(SelectSeq(records, IsDeleted), TRUE)
    IN DeleteAll(UpsertAll(d, nonDeleted, getCurrentTimestamp), deleted)

RECURSIVE UpsertStates(_, _, _)
\* The database after each turn of `for (const record of nonDeleted)`
UpsertStates(d, records, syncedAt) ==
    IF records = <<>> THEN <<>>
    ELSE LET d1 == upsertRecord(d, Head(records), syncedAt)
         IN <<d1>> \o UpsertStates(d1, Tail(records), syncedAt)

RECURSIVE DeleteStates(_, _)
\* The database after each turn of `for (const record of deleted)`
DeleteStates(d, records) ==
    IF records = <<>> THEN <<>>
    ELSE LET d1 == deleteRecord(d, Head(records))
         IN <<d1>> \o DeleteStates(d1, Tail(records))

\* The records in the order applyRemoteChanges writes them, and the
\* database after each write inside its transaction
UpsertOrder(records) == SortByOrder(SelectSeq(records, NotDeleted), FALSE)

DeleteOrder(records) == SortByOrder(SelectSeq(records, IsDeleted), TRUE)

applyRemoteChangesStates(d, records) ==
    LET ups == UpsertStates(d, UpsertOrder(records), getCurrentTimestamp)
        d1 == IF ups = <<>> THEN d ELSE ups[Len(ups)]
    IN ups \o DeleteStates(d1, DeleteOrder(records))

\* JSON.stringify / JSON.parse of a checkpoint: the stored value is the
\* checkpoint's JSON text, here the checkpoint between quotes.
JSONStringify(c) == <<"\"", c, "\"">>

IsJSON(text) == Len(text) = 3 /\ text[1] = "\"" /\ text[3] = "\""

getCheckpoint(d) ==
    LET checkpointJson == getSyncMeta(d, "checkpoint")
    IN IF checkpointJson = <<>> THEN NoCheckpoint
       ELSE IF IsJSON(checkpointJson) THEN checkpointJson[2]
       ELSE NoCheckpoint

saveCheckpoint(d, c) == setSyncMeta(d, "checkpoint", JSONStringify(c))

Digit == <<"0", "1", "2", "3", "4", "5", "6", "7", "8", "9">>

RECURSIVE NumberToString(_)
\* timestamp.toString()
NumberToString(n) ==
    IF n < 10 THEN <<Digit[n + 1]>>
    ELSE NumberToString(n \div 10) \o <<Digit[(n % 10) + 1]>>

DigitValue(c) == (CHOOSE i \in 1..10 : Digit[i] = c) - 1

RECURSIVE parseInt(_)
\* parseInt(value, 10) of a string of digits
parseInt(text) ==
    IF Len(text) = 1 THEN DigitValue(text[1])
    ELSE 10 * parseInt(SubSeq(text, 1, Len(text) - 1)) + DigitValue(text[Len(text)])

getLastSyncAt(d) ==
    LET value == getSyncMeta(d, "lastSyncAt")
    IN IF value = <<>> THEN Undef ELSE parseInt(value)

\* saveLastSyncAt writing under another key than getLastSyncAt reads
saveLastSyncAtOtherKey(d, timestamp) ==
    setSyncMeta(d, "lastSync", NumberToString(timestamp))

saveLastSyncAt(d, timestamp) ==
    setSyncMeta(d, "lastSyncAt", NumberToString(timestamp))

(***************************************************************************)
(* QmSyncClient and the token provider: collaborators of the adapter.      *)
(***************************************************************************)
NoTokens == [accessToken |-> "", refreshToken |-> ""]

\* What config.getTokens() can resolve to: each token present or absent.
ProviderAnswers == [accessToken : {"", "at"}, refreshToken : {"", "rt"}]

\* client.setTokens(accessToken, refreshToken, userId)
setTokens(accessToken, refreshToken) ==
    [accessToken |-> accessToken, refreshToken |-> refreshToken]

\* client.isAuthenticated(): an access token is held
isAuthenticated(tokens) == tokens.accessToken # ""

\* client.logout(): the tokens are cleared
clientLogout == NoTokens

\* client.login(email, password), when the server accepts: the tokens of
\* the AuthResult are held
clientLogin == [accessToken |-> "at", refreshToken |-> "rt"]

(***************************************************************************)
(* The server's answers to a delta request.                                *)
(***************************************************************************)
PullUpsert(tableName, rowId, topicId, version) ==
    [tableName |-> tableName, rowId |-> rowId, topicId |-> topicId,
     questionSyncUuid |-> IF tableName = "progress" THEN rowId ELSE "",
     tags |-> <<>>, data |-> "s", version |-> version, deleted |-> FALSE]

\* A question as another device wrote it, with its encoded tags
PullQuestion(rowId, topicId, version, tags) ==
    [PullUpsert("questions", rowId, topicId, version) EXCEPT !.tags = tags]

PullDelete(tableName, rowId) ==
    [tableName |-> tableName, rowId |-> rowId, topicId |-> "",
     questionSyncUuid |-> "", tags |-> <<>>,
     data |-> EmptyData, version |-> 1, deleted |-> TRUE]

\* The pull parts of the server about topic t1: nothing, the topic as
\* another device wrote it, or its deletion.
TopicPullBatches ==
    {<<>>, <<PullDelete("topics", "t1")>>}
    \cup {<<PullUpsert("topics", "t1", "", v)>> : v \in 1..MaxVersion}

\* The rows of a push the server rejects: none, one of them, or all.
ConflictChoices(n) == {{}} \cup {{i} : i \in 1..n} \cup {1..n}

RECURSIVE RowIdsAt(_, _, _)
RowIdsAt(records, idx, i) ==
    IF i > Len(records) THEN <<>>
    ELSE (IF i \in idx THEN <<records[i].rowId>> ELSE <<>>)
         \o RowIdsAt(records, idx, i + 1)

NoPush == [synced |-> 0, conflicts |-> <<>>, rejected |-> {}]

NoPull == [records |-> <<>>, checkpoint |-> NoCheckpoint]

NoResponse == [hasPush |-> FALSE, push |-> NoPush, hasPull |-> FALSE, pull |-> NoPull]

\* The push part of a response in which the server rejects the rows at the
\* positions c of the batch and accepts the others.  rejected is not on the
\* wire: it tells which row each entry of conflicts stands for.
PushPart(records, c) ==
    [synced |-> Len(records) - Cardinality(c),
     conflicts |-> RowIdsAt(records, c, 1), rejected |-> c]

\* The responses to a push of `records` with a push part (one per choice
\* of rejected rows in cs) and a pull part (one per batch and checkpoint),
\* and those that lack one of the two parts.
Responses(records, cs, batches) ==
    {[hasPush |-> TRUE, push |-> PushPart(records, c), hasPull |-> TRUE,
      pull |-> [records |-> b, checkpoint |-> ck]] :
        c \in cs, b \in batches, ck \in Checkpoints}
    \cup {[hasPush |-> TRUE, push |-> PushPart(records, c),
           hasPull |-> FALSE, pull |-> NoPull] : c \in cs}
    \cup {[hasPush |-> FALSE, push |-> NoPush, hasPull |-> TRUE,
           pull |-> [records |-> b, checkpoint |-> ck]] :
             b \in batches, ck \in Checkpoints}

(***************************************************************************)
(* IndexedDBSyncAdapter                                                    *)
(***************************************************************************)
NoResult ==
    [outcome |-> "none", success |-> FALSE, pushed |-> 0, pulled |-> 0,
     conflicts |-> 0, error |-> "", syncedAt |-> Undef]

\* The promise of syncNow() rejected: nothing was returned.
Rejected == [NoResult EXCEPT !.outcome = "rejected"]

\* The SyncResult of the early return and of the catch block
FailureResult(message) ==
    [outcome |-> "returned", success |-> FALSE, pushed |-> 0, pulled |-> 0,
     conflicts |-> 0, error |-> message, syncedAt |-> getCurrentTimestamp]

\* pushed, pulled and conflicts as syncNow computes them from the response
Pushed(resp) == IF resp.hasPush THEN resp.push.synced ELSE 0

Pulled(resp) == IF resp.hasPull THEN Len(resp.pull.records) ELSE 0

Conflicts(resp) == IF resp.hasPush THEN Len(resp.push.conflicts) ELSE 0

SuccessResult(resp, syncedAt) ==
    [outcome |-> "returned", success |-> TRUE, pushed |-> Pushed(resp),
     pulled |-> Pulled(resp), conflicts |-> Conflicts(resp), error |-> "",
     syncedAt |-> syncedAt]

\* The tokens the client holds after `const {...} = await getTokens();
\* if (accessToken && refreshToken) setTokens(...)`
RefreshedTokens(held, answer) ==
    IF answer.accessToken # "" /\ answer.refreshToken # ""
    THEN setTokens(answer.accessToken, answer.refreshToken)
    ELSE held

\* initialize(), as getStatus() calls it
Initialize(answer) ==
    /\ Suspended
    /\ ~initialized
    /\ clientTokens' = RefreshedTokens(clientTokens, answer)
    /\ initialized' = TRUE
    /\ loads' = loads + 1
    /\ UNCHANGED <<db, now, pc, usedIds, quiet,
                   serverCheckpoint, initializing>>
    /\ UNCHANGED syncLocals

\* initialize() up to `await this.config.getTokens()`: the flag is read,
\* the provider is called
InitializeCall ==
    /\ Suspended
    /\ ~initialized
    /\ initializing < MaxCalls
    /\ initializing' = initializing + 1
    /\ loads' = loads + 1
    /\ UNCHANGED <<db, now, clientTokens, initialized, pc, usedIds, quiet,
                   serverCheckpoint>>
    /\ UNCHANGED syncLocals

\* initialize() from the provider's answer on: setTokens, initialized = true
InitializeResume(answer) ==
    /\ Suspended
    /\ initializing > 0
    /\ initializing' = initializing - 1
    /\ clientTokens' = RefreshedTokens(clientTokens, answer)
    /\ initialized' = TRUE
    /\ UNCHANGED <<db, now, pc, usedIds, quiet, serverCheckpoint, loads>>
    /\ UNCHANGED syncLocals

\* login(email, password) accepted by the server
Login ==
    /\ Suspended
    /\ clientTokens' = clientLogin
    /\ UNCHANGED <<db, now, initialized, pc, usedIds, quiet,
                   serverCheckpoint, initializing, loads>>
    /\ UNCHANGED syncLocals

\* logout() clearing the sync metadata and the queue of deletes as well
LogoutClearingStorage ==
    /\ Suspended
    /\ clientTokens' = clientLogout
    /\ initialized' = FALSE
    /\ db' = [db EXCEPT !.syncMeta = EmptyTable, !.pendingChanges = <<>>]
    /\ loads' = 0
    /\ UNCHANGED <<now, pc, usedIds, quiet, serverCheckpoint, initializing>>
    /\ UNCHANGED syncLocals

\* logout()
Logout ==
    /\ Suspended
    /\ clientTokens' = clientLogout
    /\ initialized' = FALSE
    /\ loads' = 0
    /\ UNCHANGED <<db, now, pc, usedIds, quiet,
                   serverCheckpoint, initializing>>
    /\ UNCHANGED syncLocals

\* syncNow() without its early return
SyncNowStartUnguarded(answer) ==
    /\ pc = "idle"
    /\ provided' = answer
    /\ clientTokens' = RefreshedTokens(clientTokens, answer)
    /\ initialized' = TRUE
    /\ pre' = db
    /\ interleaved' = FALSE
    /\ response' = NoResponse
    /\ pendingChanges' = getPendingChanges(db)
    /\ checkpoint' = getCheckpoint(db)
    /\ result' = NoResult
    /\ pc' = "inflight"
    /\ UNCHANGED <<db, now, usedIds, quiet,
                   serverCheckpoint, initializing, loads>>

\* syncNow(), up to the request: the token refresh, the early return, the
\* reads of the pending changes and of the checkpoint
SyncNowStart(answer) ==
    /\ pc = "idle"
    /\ provided' = answer
    /\ clientTokens' = RefreshedTokens(clientTokens, answer)
    /\ initialized' = TRUE
    /\ pre' = db
    /\ interleaved' = FALSE
    /\ response' = NoResponse
    /\ IF ~isAuthenticated(clientTokens')
       THEN /\ result' = FailureResult("Not authenticated")
            /\ pc' = "done"
            /\ UNCHANGED <<pendingChanges, checkpoint>>
       ELSE /\ pendingChanges' = getPendingChanges(db)
            /\ checkpoint' = getCheckpoint(db)
            /\ result' = NoResult
            /\ pc' = "inflight"
    /\ UNCHANGED <<db, now, usedIds, quiet,
                   serverCheckpoint, initializing, loads>>

\* syncNow() when config.getTokens() rejects: the await is outside the try
SyncNowTokensThrow ==
    /\ pc = "idle"
    /\ provided' = NoTokens
    /\ pre' = db
    /\ interleaved' = FALSE
    /\ response' = NoResponse
    /\ result' = Rejected
    /\ pc' = "done"
    /\ UNCHANGED <<db, now, clientTokens, initialized, pendingChanges,
                   checkpoint, usedIds, quiet, serverCheckpoint, initializing, loads>>

\* The catch block
Catch(message) ==
    /\ result' = FailureResult(message)
    /\ pc' = "done"
    /\ UNCHANGED <<now, clientTokens, initialized, provided, pendingChanges,
                   checkpoint, pre, interleaved, quiet, serverCheckpoint, initializing, loads>>

\* The catch block persisting the syncedAt it reports
DeltaThrowsSavingLastSyncAt ==
    /\ pc = "inflight"
    /\ response' = NoResponse
    /\ db' = saveLastSyncAt(db, getCurrentTimestamp)
    /\ UNCHANGED usedIds
    /\ Catch("Network error")

\* client.delta(pendingChanges, checkpoint) throws
DeltaThrows ==
    /\ pc = "inflight"
    /\ response' = NoResponse
    /\ UNCHANGED <<db, usedIds>>
    /\ Catch("Network error")

\* Whether syncNow() calls markSynced / applyRemoteChanges on a response
CallsMarkSynced(resp) == resp.hasPush /\ resp.push.synced > 0

CallsApply(resp) == resp.hasPull /\ Len(resp.pull.records) > 0

\* The database after `if (response.push) { ... await markSynced(syncedIds) }`
AfterPush(d, resp, records) ==
    IF CallsMarkSynced(resp) THEN markSynced(d, records) ELSE d

\* The database after `if (pulled > 0) await applyRemoteChanges(records)`
AfterApply(d, resp) ==
    IF CallsApply(resp) THEN applyRemoteChanges(d, resp.pull.records) ELSE d

\* saveCheckpoint moved inside `if (pulled > 0)`
AfterCheckpointWhenPulled(d, resp) ==
    IF CallsApply(resp) THEN saveCheckpoint(d, resp.pull.checkpoint) ELSE d

\* The database after `await saveCheckpoint(response.pull.checkpoint)`
AfterCheckpoint(d, resp) ==
    IF resp.hasPull THEN saveCheckpoint(d, resp.pull.checkpoint) ELSE d

\* The database after the three of them
AfterResponse(d, resp, records) ==
    AfterCheckpoint(AfterApply(AfterPush(d, resp, records), resp), resp)

PulledIds(resp) == {r.rowId : r \in Range(resp.pull.records)}

\* The response arrives and markSynced's transaction fails.
MarkSyncedThrows(resp) ==
    /\ pc = "inflight"
    /\ CallsMarkSynced(resp)
    /\ response' = resp
    /\ UNCHANGED <<db, usedIds>>
    /\ Catch("Storage error")

\* applyRemoteChanges failing after its first write, without a transaction
\* around the loops
ApplyRemoteChangesThrowsPartway(resp) ==
    /\ pc = "inflight"
    /\ CallsApply(resp)
    /\ response' = resp
    /\ db' = applyRemoteChangesStates(AfterPush(db, resp, pendingChanges),
                                      resp.pull.records)[1]
    /\ UNCHANGED usedIds
    /\ Catch("Storage error")

\* syncNow() saving the checkpoint before it applies the pulled records
ApplyRemoteChangesThrowsAfterCheckpoint(resp) ==
    /\ pc = "inflight"
    /\ CallsApply(resp)
    /\ response' = resp
    /\ db' = AfterCheckpoint(AfterPush(db, resp, pendingChanges), resp)
    /\ UNCHANGED usedIds
    /\ Catch("Storage error")

\* The response arrives, the pushed rows are marked, and
\* applyRemoteChanges' transaction fails.
ApplyRemoteChangesThrows(resp) ==
    /\ pc = "inflight"
    /\ CallsApply(resp)
    /\ response' = resp
    /\ db' = AfterPush(db, resp, pendingChanges)
    /\ UNCHANGED usedIds
    /\ Catch("Storage error")

\* ... saveCheckpoint fails.
SaveCheckpointThrows(resp) ==
    /\ pc = "inflight"
    /\ resp.hasPull
    /\ response' = resp
    /\ db' = AfterApply(AfterPush(db, resp, pendingChanges), resp)
    /\ usedIds' = IF CallsApply(resp) THEN usedIds \cup PulledIds(resp) ELSE usedIds
    /\ Catch("Storage error")

\* ... saveLastSyncAt fails.
SaveLastSyncAtThrows(resp) ==
    /\ pc = "inflight"
    /\ response' = resp
    /\ db' = AfterResponse(db, resp, pendingChanges)
    /\ usedIds' = IF CallsApply(resp) THEN usedIds \cup PulledIds(resp) ELSE usedIds
    /\ Catch("Storage error")

\* The response arrives and every local step succeeds: syncNow() from
\* `const response = await this.client.delta(...)` to its return.
SyncNowCompletes(resp) ==
    /\ pc = "inflight"
    /\ response' = resp
    /\ db' = saveLastSyncAt(AfterResponse(db, resp, pendingChanges),
                             getCurrentTimestamp)
    /\ usedIds' = IF CallsApply(resp) THEN usedIds \cup PulledIds(resp) ELSE usedIds
    /\ result' = SuccessResult(resp, getCurrentTimestamp)
    /\ pc' = "done"
    /\ serverCheckpoint' = IF resp.hasPull THEN resp.pull.checkpoint
                           ELSE serverCheckpoint
    /\ UNCHANGED <<now, clientTokens, initialized, provided, pendingChanges,
                   checkpoint, pre, interleaved, quiet, initializing, loads>>

\* The server accepted every row of the push.
AcceptsAll(resp, records) ==
    resp.hasPush /\ resp.push.synced = Len(records) /\ resp.push.conflicts = <<>>

\* The caller has its answer.
Return ==
    /\ pc = "done"
    /\ quiet' = (/\ result.outcome = "returned"
                 /\ result.success
                 /\ AcceptsAll(response, pendingChanges)
                 /\ ~interleaved)
    /\ pc' = "idle"
    /\ provided' = NoTokens
    /\ pendingChanges' = <<>>
    /\ checkpoint' = NoCheckpoint
    /\ response' = NoResponse
    /\ result' = NoResult
    /\ pre' = EmptyDB
    /\ interleaved' = FALSE
    /\ UNCHANGED <<db, now, clientTokens, initialized, usedIds,
                   serverCheckpoint, initializing, loads>>

\* A second passes.
Tick ==
    /\ Suspended
    /\ now < MaxTime
    /\ now' = now + 1
    /\ UNCHANGED <<db, clientTokens, initialized, pc, usedIds, quiet,
                   serverCheckpoint, initializing, loads>>
    /\ UNCHANGED syncLocals

Init ==
    /\ db = EmptyDB
    /\ now = 1
    /\ clientTokens = NoTokens
    /\ initialized = FALSE
    /\ pc = "idle"
    /\ provided = NoTokens
    /\ pendingChanges = <<>>
    /\ checkpoint = NoCheckpoint
    /\ response = NoResponse
    /\ result = NoResult
    /\ pre = EmptyDB
    /\ interleaved = FALSE
    /\ usedIds = {}
    /\ quiet = FALSE
    /\ serverCheckpoint = NoCheckpoint
    /\ initializing = 0
    /\ loads = 0

Authenticated == [accessToken |-> "at", refreshToken |-> "rt"]

\* What the server of a specification answers to the request in flight.
TopicResponses ==
    Responses(pendingChanges, ConflictChoices(Len(pendingChanges)), TopicPullBatches)

\* A server with nothing to send back: it accepts or rejects the pushed
\* rows, and its pull part, when there is one, is empty.
TableResponses ==
    Responses(pendingChanges, ConflictChoices(Len(pendingChanges)), {<<>>})

\* What other devices have written: topic t1, its question q1 with tags
\* that decode or do not, q1's progress, a quiz session, and the deletions
\* of the topic and of the question.
WellFormedTags == <<"[", "a", "]">>

MalformedTags == <<"[", "a">>

PullRecords ==
    {PullUpsert("topics", "t1", "", 1)}
    \cup {PullQuestion("q1", "t1", MaxVersion, tags) : tags \in {WellFormedTags, MalformedTags}}
    \cup {PullUpsert("progress", "q1", "t1", 1), PullUpsert("quiz_sessions", "s1", "", 1)}
    \cup {PullDelete("topics", "t1"), PullDelete("questions", "q1")}

\* The arrays of at most n records, one record per row at most, in every
\* order
Batches(records, n) ==
    {b \in UNION {[1..k -> records] : k \in 0..n} :
        \A i, j \in 1..Len(b) :
            (b[i].tableName = b[j].tableName /\ b[i].rowId = b[j].rowId) => i = j}

\* A server that accepts every row and sends back a batch of PullRecords.
PullResponses ==
    {resp \in Responses(pendingChanges, {{}}, Batches(PullRecords, MaxBatch)) :
        resp.hasPush /\ resp.hasPull}

\* A table the client does not have, and what a server that has it sends:
\* a record of that table, written or deleted, under the id of topic t1,
\* next to records of topic t1 and of a quiz session.
UnknownTable == "notes"

HasKnownTable(record) == getTable(record.tableName) # NoTable

UnknownTableRecords ==
    {PullUpsert(UnknownTable, "t1", "", 1), PullDelete(UnknownTable, "t1"),
     PullUpsert("topics", "t1", "", 1), PullDelete("topics", "t1"),
     PullUpsert("quiz_sessions", "s1", "", 1)}

UnknownTableResponses ==
    {resp \in Responses(pendingChanges, {{}},
                        Batches(UnknownTableRecords, MaxBatch)) :
        resp.hasPush /\ resp.hasPull}

\* A server whose batch can hold both the written and the deleted record of
\* a row: topic t1, question q1 and q1's progress, each written and deleted.
SameRowRecords ==
    {PullUpsert("topics", "t1", "", 1), PullDelete("topics", "t1"),
     PullUpsert("questions", "q1", "t1", 1), PullDelete("questions", "q1"),
     PullUpsert("progress", "q1", "t1", 1), PullDelete("progress", "q1")}

\* The arrays of at most n different records, in every order
RecordArrays(records, n) ==
    {b \in UNION {[1..k -> records] : k \in 0..n} :
        \A i, j \in 1..Len(b) : b[i] = b[j] => i = j}

SameRowResponses ==
    {resp \in Responses(pendingChanges, {{}},
                        RecordArrays(SameRowRecords, MaxBatch)) :
        resp.hasPush /\ resp.hasPull}

\* A server that accepts every row and has nothing to send back.
AcceptingResponses == Responses(pendingChanges, {{}}, {<<>>})

(***************************************************************************)
(* Spec: the whole of syncNow() over the topics table, with the CRUD       *)
(* handlers of topics running between calls and while a call waits for the *)
(* server.                                                                 *)
(***************************************************************************)
Next ==
    \/ TopicsCrud
    \/ SyncNowStart(Authenticated)
    \/ DeltaThrows
    \/ pc = "inflight" /\ \E resp \in TopicResponses : SyncNowCompletes(resp)
    \/ pc = "inflight" /\ \E resp \in TopicResponses : MarkSyncedThrows(resp)
    \/ pc = "inflight" /\ \E resp \in TopicResponses : ApplyRemoteChangesThrows(resp)
    \/ pc = "inflight" /\ \E resp \in TopicResponses : SaveCheckpointThrows(resp)
    \/ pc = "inflight" /\ \E resp \in TopicResponses : SaveLastSyncAtThrows(resp)
    \/ Return

Spec == Init /\ [][Next]_vars

(***************************************************************************)
(* SpecClock: syncNow() calls, authenticated or not, as the clock          *)
(* advances, with topics created between calls.                            *)
(***************************************************************************)
NextClock ==
    \/ pc = "idle" /\ \E id \in TopicIds, dto \in Data : TopicsCreate(id, dto)
    \/ pc = "idle" /\ Logout
    \/ \E answer \in {NoTokens, Authenticated} : SyncNowStart(answer)
    \/ DeltaThrows
    \/ pc = "inflight" /\ \E resp \in TopicResponses : SyncNowCompletes(resp)
    \/ pc = "inflight" /\ \E resp \in TopicResponses : SaveCheckpointThrows(resp)
    \/ pc = "inflight" /\ \E resp \in TopicResponses : SaveLastSyncAtThrows(resp)
    \/ Return
    \/ Tick

SpecClock == Init /\ [][NextClock]_vars

(***************************************************************************)
(* SpecTables: the four entity tables and the tombstone queue, with the    *)
(* CRUD handlers running between calls of syncNow().                       *)
(***************************************************************************)
NextTables ==
    \/ pc = "idle" /\ \E id \in TopicIds, dto \in Data : TopicsCreate(id, dto)
    \/ pc = "idle" /\ \E id \in TopicIds, dto \in Data : TopicsUpdate(id, dto)
    \/ pc = "idle" /\ \E id \in TopicIds : TopicsDelete(id)
    \/ pc = "idle" /\ \E id \in QuestionIds, t \in TopicIds, dto \in Data :
                          QuestionsCreate(id, t, dto)
    \/ pc = "idle" /\ \E id \in QuestionIds, dto \in Data : QuestionsUpdate(id, dto)
    \/ pc = "idle" /\ \E id \in QuestionIds : QuestionsDelete(id)
    \/ pc = "idle" /\ \E id \in QuestionIds, dto \in Data : ProgressUpdate(id, dto)
    \/ pc = "idle" /\ \E id \in QuestionIds : ProgressReset(id)
    \/ pc = "idle" /\ \E id \in SessionIds, dto \in Data : QuizCreateSession(id, dto)
    \/ pc = "idle" /\ \E id \in SessionIds, dto \in Data : QuizSubmitAnswer(id, dto)
    \/ pc = "idle" /\ \E id \in SessionIds : QuizCompleteSession(id)
    \/ SyncNowStart(Authenticated)
    \/ pc = "inflight" /\ \E resp \in TableResponses : SyncNowCompletes(resp)
    \/ Return

SpecTables == Init /\ [][NextTables]_vars

(***************************************************************************)
(* SpecPull: the pull part of syncNow() over the four tables: batches of   *)
(* several records in every order, applied or failing to apply; pulled     *)
(* topics updated locally between calls.                                   *)
(***************************************************************************)
NextPull ==
    \/ pc = "idle" /\ \E id \in TopicIds, dto \in Data : TopicsUpdate(id, dto)
    \/ SyncNowStart(Authenticated)
    \/ pc = "inflight" /\ \E resp \in PullResponses : SyncNowCompletes(resp)
    \/ pc = "inflight" /\ \E resp \in PullResponses : ApplyRemoteChangesThrows(resp)
    \/ Return

SpecPull == Init /\ [][NextPull]_vars

(***************************************************************************)
(* SpecUnknownTable: syncNow() against a server that also sends records of *)
(* a table the client does not have.                                       *)
(***************************************************************************)
NextUnknownTable ==
    \/ pc = "idle" /\ \E id \in TopicIds, dto \in Data : TopicsUpdate(id, dto)
    \/ SyncNowStart(Authenticated)
    \/ pc = "inflight" /\ \E resp \in UnknownTableResponses : SyncNowCompletes(resp)
    \/ Return

SpecUnknownTable == Init /\ [][NextUnknownTable]_vars

(***************************************************************************)
(* SpecInitialize: initialize() as getStatus() and the application call    *)
(* it, a call able to start while another waits for the token provider,    *)
(* with login(), logout() and syncNow().                                   *)
(***************************************************************************)
NextInitialize ==
    \/ pc = "idle" /\ \E id \in TopicIds, dto \in Data : TopicsCreate(id, dto)
    \/ InitializeCall
    \/ \E answer \in ProviderAnswers : InitializeResume(answer)
    \/ Login
    \/ Logout
    \/ \E answer \in ProviderAnswers : SyncNowStart(answer)
    \/ DeltaThrows
    \/ pc = "inflight" /\ \E resp \in AcceptingResponses : SyncNowCompletes(resp)
    \/ Return

SpecInitialize == Init /\ [][NextInitialize]_vars

(***************************************************************************)
(* SpecQuiet: syncNow() called again and again by an authenticated client, *)
(* with topics and quiz sessions written between the calls.  A call that   *)
(* can start does start, a call that has its result returns it, and of the *)
(* requests sent again and again one is answered in the end, by a server   *)
(* that accepts every pushed row.                                          *)
(***************************************************************************)
QuietResponses ==
    {resp \in Responses(pendingChanges, {{}}, TopicPullBatches) :
        resp.hasPush /\ resp.hasPull}

DeltaSucceeds == pc = "inflight" /\ \E resp \in QuietResponses : SyncNowCompletes(resp)

NextQuiet ==
    \/ pc = "idle" /\ \E id \in TopicIds, dto \in Data : TopicsCreate(id, dto)
    \/ pc = "idle" /\ \E id \in TopicIds, dto \in Data : TopicsUpdate(id, dto)
    \/ pc = "idle" /\ \E id \in TopicIds : TopicsDelete(id)
    \/ pc = "idle" /\ \E id \in SessionIds, dto \in Data : QuizCreateSession(id, dto)
    \/ SyncNowStart(Authenticated)
    \/ DeltaThrows
    \/ DeltaSucceeds
    \/ Return

SpecQuiet ==
    /\ Init /\ [][NextQuiet]_vars
    /\ WF_vars(SyncNowStart(Authenticated))
    /\ WF_vars(Return)
    /\ SF_vars(DeltaSucceeds)

(***************************************************************************)
(* SpecSameRow: syncNow() against a server whose batches can hold two      *)
(* records of one row.                                                     *)
(***************************************************************************)
NextSameRow ==
    \/ pc = "idle" /\ \E id \in TopicIds, dto \in Data : TopicsUpdate(id, dto)
    \/ SyncNowStart(Authenticated)
    \/ pc = "inflight" /\ \E resp \in SameRowResponses : SyncNowCompletes(resp)
    \/ Return

SpecSameRow == Init /\ [][NextSameRow]_vars

(***************************************************************************)
(* SpecCascade: a topic with up to two questions and their progress rows,  *)
(* and the cascading deletes.                                              *)
(***************************************************************************)
CascadeQuestionIds == {"q1", "q2"}

NextCascade ==
    \/ pc = "idle" /\ \E id \in TopicIds, dto \in Data : TopicsCreate(id, dto)
    \/ pc = "idle" /\ \E id \in CascadeQuestionIds, t \in TopicIds, dto \in Data :
                          QuestionsCreate(id, t, dto)
    \/ pc = "idle" /\ \E id \in CascadeQuestionIds, dto \in Data : QuestionsUpdate(id, dto)
    \/ pc = "idle" /\ \E id \in CascadeQuestionIds, dto \in Data : ProgressUpdate(id, dto)
    \/ pc = "idle" /\ \E id \in CascadeQuestionIds : QuestionsDelete(id)
    \/ pc = "idle" /\ \E id \in TopicIds : TopicsDelete(id)

SpecCascade == Init /\ [][NextCascade]_vars

(***************************************************************************)
(* SpecAuth: the token provider's answers, initialize(), login() and       *)
(* logout(), with topics created between calls.                            *)
(***************************************************************************)
NextAuth ==
    \/ pc = "idle" /\ \E id \in TopicIds, dto \in Data : TopicsCreate(id, dto)
    \/ pc = "idle" /\ \E id \in TopicIds : TopicsDelete(id)
    \/ \E answer \in ProviderAnswers : Initialize(answer)
    \/ Login
    \/ Logout
    \/ \E answer \in ProviderAnswers : SyncNowStart(answer)
    \/ SyncNowTokensThrow
    \/ DeltaThrows
    \/ pc = "inflight" /\ \E resp \in AcceptingResponses : SyncNowCompletes(resp)
    \/ Return
    \/ Tick

SpecAuth == Init /\ [][NextAuth]_vars

(***************************************************************************)
(* The properties of syncNow().                                            *)
(***************************************************************************)
\* syncNow() has returned a SyncResult (its promise did not reject).
Returned == pc = "done" /\ result.outcome = "returned"

Succeeded == Returned /\ result.success

Failed == Returned /\ ~result.success

\* collectPendingChanges() of the database d includes the record rec.
StillPending(d, rec) == rec \in Range(getPendingChanges(d))

\* C1: a row the server's push response reports as a conflict is still
\* pending when syncNow() has completed: collectPendingChanges() still
\* returns its record, data and version unmodified - for every batch, also
\* when the server accepted other rows of the same push.  (No CRUD handler
\* ran during the call.)
C1_ConflictStaysPending ==
    (Succeeded /\ ~interleaved) =>
        \A i \in response.push.rejected : StillPending(db, pendingChanges[i])

\* C2: a topic updated locally while the delta request is in flight is not
\* silently dropped: when the response (one that pulls no record) has been
\* handled and syncNow() succeeds, the topic is still dirty and the next
\* push batch holds its new content.
C2_InFlightUpdateKept ==
    [][(pc = "inflight" /\ pc' = "done" /\ result'.success
            /\ Pulled(response') = 0)
        => \A id \in (DOMAIN db.topics) \cap (DOMAIN pre.topics) :
              (db.topics[id] # pre.topics[id] /\ db.topics[id].synced_at = Undef)
              => /\ id \in DOMAIN db'.topics
                 /\ db'.topics[id].synced_at = Undef
                 /\ StillPending(db', RowRecord("topics", id, db.topics[id]))]_vars

\* C3: when the delta call throws, syncNow() returns with the stored
\* checkpoint and last-sync-at as they were before the call and, no CRUD
\* handler having run meanwhile, with every row's synced_at and the
\* tombstone queue as they were: the database is the one of before the call.
C3_NetworkFailureKeepsState ==
    (Returned /\ result.error = "Network error") =>
        /\ db.syncMeta = pre.syncMeta
        /\ ~interleaved => db = pre

\* The delta call of a call with rows, tombstones and a checkpoint at stake
\* threw.
C3_Witness ==
    /\ Returned /\ result.error = "Network error" /\ ~interleaved
    /\ \E id \in DOMAIN db.topics : db.topics[id].synced_at = Undef
    /\ db.pendingChanges # <<>>
    /\ getCheckpoint(db) # NoCheckpoint
    /\ getLastSyncAt(db) # Undef

\* C4: whenever syncNow() returns success:false, whichever step failed,
\* nothing has been marked synced, no tombstone has been removed and the
\* checkpoint has not advanced relative to the state before the call.  (No
\* CRUD handler ran during the call.)
C4_FailureLeavesNoPartialMutation ==
    (Failed /\ ~interleaved) =>
        /\ getPendingChanges(db) = getPendingChanges(pre)
        /\ db.pendingChanges = pre.pendingChanges
        /\ getCheckpoint(db) = getCheckpoint(pre)

\* C5: syncNow() never rejects: every error of a step of the call, the token
\* provider's included, is reported as a returned SyncResult with
\* success:false, pushed = pulled = conflicts = 0 and an error message.
C5_NeverRejects ==
    pc = "done" =>
        /\ result.outcome = "returned"
        /\ ~result.success =>
              /\ result.pushed = 0 /\ result.pulled = 0 /\ result.conflicts = 0
              /\ result.error # ""

\* C6: when the client is not authenticated after the token refresh,
\* syncNow() returns {pushed:0, pulled:0, conflicts:0, success:false,
\* error:"Not authenticated"} with no request sent and the database (rows,
\* tombstones, checkpoint, last-sync-at) unchanged.
C6_NotAuthenticated ==
    [][(pc = "idle" /\ pc' # "idle" /\ result'.outcome # "rejected"
            /\ ~isAuthenticated(clientTokens'))
        => /\ pc' = "done"
           /\ result' = [outcome |-> "returned", success |-> FALSE,
                          pushed |-> 0, pulled |-> 0, conflicts |-> 0,
                          error |-> "Not authenticated", syncedAt |-> now]
           /\ response' = NoResponse
           /\ db' = db]_vars

\* An unauthenticated call returned while a topic waited to be pushed.
C6_Witness ==
    /\ Returned /\ result.error = "Not authenticated"
    /\ ~isAuthenticated(clientTokens)
    /\ getPendingChanges(db) # <<>>
    /\ db = pre

\* C7: whenever the token provider returns no access token or no refresh
\* token at the start of syncNow(), no delta request is sent - also when an
\* earlier initialize(), syncNow() or login() had loaded tokens into the
\* client and logout() was never called.
C7_NoRequestWithoutProvidedTokens ==
    pc = "inflight" =>
        (provided.accessToken # "" /\ provided.refreshToken # "")

\* C8: syncNow() called right after a successful syncNow() in which the
\* server accepted every row, with no local write since that call began,
\* sends an empty push batch and reports pushed:0.
C8_SecondPushEmpty ==
    (pc \in {"inflight", "done"} /\ quiet) =>
        /\ pendingChanges = <<>>
        /\ Succeeded => result.pushed = 0

\* The second call returned after a first one whose push had carried rows:
\* each of the four tables holds a row, every one marked synced, and the
\* tombstone queue is empty.
C8_Witness ==
    /\ Succeeded /\ quiet /\ result.pushed = 0
    /\ \A t \in EntityTables :
          /\ DOMAIN db[t] # {}
          /\ \A id \in DOMAIN db[t] : db[t][id].synced_at # Undef
    /\ db.pendingChanges = <<>>

\* C9: after every successful syncNow() whose response carries a pull part,
\* the stored checkpoint is the checkpoint of that response, whether the
\* pull returned records or none.
C9_CheckpointStored ==
    (Succeeded /\ response.hasPull) =>
        getCheckpoint(db) = response.pull.checkpoint

\* A pull of zero records replaced the stored checkpoint.
C9_Witness ==
    /\ Succeeded /\ response.hasPull /\ response.pull.records = <<>>
    /\ getCheckpoint(pre) # NoCheckpoint
    /\ getCheckpoint(db) # getCheckpoint(pre)

\* C10 as stated: after a successful sync with a non-empty pull,
\* lastSyncAt has increased relative to its value before the call, equals
\* the syncedAt returned, and the stored checkpoint is the server's; failed
\* and unauthenticated calls leave lastSyncAt unchanged.
C10_LastSyncAtIncreases ==
    /\ (Succeeded /\ Pulled(response) > 0) =>
          /\ getLastSyncAt(db) > getLastSyncAt(pre)
          /\ getLastSyncAt(db) = result.syncedAt
          /\ getCheckpoint(db) = response.pull.checkpoint
    /\ Failed => getLastSyncAt(db) = getLastSyncAt(pre)

\* C10 amended: after a successful sync with a non-empty pull, lastSyncAt
\* equals the syncedAt returned, the second of the clock at which the call
\* ended, and the stored checkpoint is the server's; failed and
\* unauthenticated calls leave lastSyncAt unchanged.
C10_LastSyncAtIsSyncedAt ==
    /\ (Succeeded /\ Pulled(response) > 0) =>
          /\ getLastSyncAt(db) = result.syncedAt
          /\ result.syncedAt = getCurrentTimestamp
          /\ getCheckpoint(db) = response.pull.checkpoint
    /\ Failed => getLastSyncAt(db) = getLastSyncAt(pre)

\* A second successful sync with a non-empty pull, a second after the
\* first.
C10_Witness ==
    /\ Succeeded /\ Pulled(response) > 0
    /\ getLastSyncAt(pre) # Undef
    /\ getLastSyncAt(db) > getLastSyncAt(pre)

\* C11: the checkpoint sent in each delta request is the checkpoint the
\* server returned in the pull part of the most recent earlier successful
\* sync, or is absent if there was none - whatever calls (successful,
\* failed), CRUD handlers and clock ticks came before.
C11_SendsLastSuccessfulCheckpoint ==
    pc = "inflight" => checkpoint = serverCheckpoint

\* The step from this state to the next is WebTopicsAdapter.delete(id).
IsTopicsDelete(id) == id \in DOMAIN db.topics /\ id \notin DOMAIN db'.topics

\* The child questions of topic id, and whether each has a progress row
ChildrenOf(d, id) == {q \in DOMAIN d.questions : d.questions[q].topicId = id}

EachHasProgress(d, id) == ChildrenOf(d, id) \subseteq DOMAIN d.progress

\* The tombstones the step has appended to the queue
Enqueued == SubSeq(db'.pendingChanges, Len(db.pendingChanges) + 1, Len(db'.pendingChanges))

\* The position in the sequence s of the entry of (tableName, id); 0 if none
PositionOf(s, tableName, id) ==
    IF \E i \in 1..Len(s) : s[i].tableName = tableName /\ s[i].rowId = id
    THEN CHOOSE i \in 1..Len(s) : s[i].tableName = tableName /\ s[i].rowId = id
    ELSE 0

\* C12 as stated: deleting a topic with N child questions, each with a
\* progress row, enqueues the N progress tombstones, then the N question
\* tombstones, then the topic's tombstone, and every tombstone is enqueued
\* before any of those rows is deleted.
C12_AllProgressThenAllQuestions ==
    [][\A id \in TopicIds :
        (IsTopicsDelete(id) /\ EachHasProgress(db, id)) =>
            LET N == Cardinality(ChildrenOf(db, id))
                steps == TopicsDeleteSteps(db, id)
            IN /\ Len(Enqueued) = 2 * N + 1
               /\ \A i \in 1..N : Enqueued[i].tableName = "progress"
               /\ \A i \in (N + 1)..(2 * N) : Enqueued[i].tableName = "questions"
               /\ Enqueued[2 * N + 1].tableName = "topics"
               /\ \A i, j \in 1..Len(steps) :
                     (steps[i].op = "delete" /\ steps[j].op = "trackDelete") => j < i]_vars

\* C12 amended: deleting a topic with N child questions, each with a
\* progress row, enqueues 2N+1 tombstones, question by question: a
\* question's progress tombstone, then right after it the question's
\* tombstone; the topic's tombstone comes last; and each row's tombstone is
\* enqueued before that row is deleted, in the one transaction whose effect
\* the step is.
C12_ChildBeforeParent ==
    [][\A id \in TopicIds :
        (IsTopicsDelete(id) /\ EachHasProgress(db, id)) =>
            LET N == Cardinality(ChildrenOf(db, id))
                steps == TopicsDeleteSteps(db, id)
            IN /\ Len(Enqueued) = 2 * N + 1
               /\ Enqueued[2 * N + 1].tableName = "topics"
               /\ Enqueued[2 * N + 1].rowId = id
               /\ \A q \in ChildrenOf(db, id) :
                     /\ PositionOf(Enqueued, "progress", q) > 0
                     /\ PositionOf(Enqueued, "questions", q)
                          = PositionOf(Enqueued, "progress", q) + 1
               /\ \A i \in 1..Len(steps) :
                     (steps[i].op = "delete"
                        /\ steps[i].rowId \in DOMAIN db[steps[i].tableName])
                     => \E j \in 1..(i - 1) :
                           /\ steps[j].op = "trackDelete"
                           /\ steps[j].tableName = steps[i].tableName
                           /\ steps[j].rowId = steps[i].rowId
               /\ db' = ApplySteps(db, steps)]_vars

\* A topic with two questions, each with progress, has been deleted: the
\* queue holds progress, question, progress, question, topic.
C12_Witness ==
    /\ Len(db.pendingChanges) = 5
    /\ db.pendingChanges[1].tableName = "progress"
    /\ db.pendingChanges[2].tableName = "questions"
    /\ db.pendingChanges[3].tableName = "progress"
    /\ db.pendingChanges[4].tableName = "questions"
    /\ db.pendingChanges[5].tableName = "topics"
    /\ db.topics = EmptyTable /\ db.questions = EmptyTable /\ db.progress = EmptyTable

\* C13: in every state between transactions, a (table, rowId) with an entry
\* in the pending-delete queue has no row of that id in its home table -
\* also after a sync in which the server did not accept the tombstone while
\* its pull part returned a non-deleted record of the same row.
C13_TombstonedRowIsAbsent ==
    \A i \in 1..Len(db.pendingChanges) :
        db.pendingChanges[i].rowId \notin DOMAIN db[db.pendingChanges[i].tableName]

\* The entity tables of a database, without the queue and the metadata
Tables(d) == [t \in EntityTables |-> d[t]]

\* The database applyRemoteChanges of the completed call started from
BeforeApply == AfterPush(pre, response, pendingChanges)

\* C14: applyRemoteChanges writes the upserts of a pulled batch in ascending
\* table rank - every topic before any question, every question before any
\* progress or quiz session - whatever the order of the batch; at each write
\* of a question whose topic, or of a progress whose question, the batch
\* also upserts, the parent row is already there; and the tables after the
\* call are those the last write left.
C14_ParentsBeforeChildren ==
    (Succeeded /\ CallsApply(response)) =>
        LET order == UpsertOrder(response.pull.records)
            states == UpsertStates(BeforeApply, order, getCurrentTimestamp)
            all == applyRemoteChangesStates(BeforeApply, response.pull.records)
        IN /\ \A i, j \in 1..Len(order) :
                 i < j => getTableOrder(order[i].tableName)
                             <= getTableOrder(order[j].tableName)
           /\ \A i \in 1..Len(order) :
                 /\ (/\ order[i].tableName = "questions"
                     /\ \E r \in Range(order) :
                           r.tableName = "topics" /\ r.rowId = order[i].topicId)
                    => order[i].topicId \in DOMAIN states[i].topics
                 /\ (/\ order[i].tableName = "progress"
                     /\ \E r \in Range(order) :
                           r.tableName = "questions" /\ r.rowId = ProgressKey(order[i]))
                    => ProgressKey(order[i]) \in DOMAIN states[i].questions
           /\ Tables(db) = Tables(all[Len(all)])

\* A batch that lists a progress, then its question, then the question's
\* topic has been applied to a database that held none of the three.
C14_Witness ==
    /\ Succeeded /\ Len(response.pull.records) = 3
    /\ response.pull.records[1].tableName = "progress"
    /\ response.pull.records[2].tableName = "questions"
    /\ response.pull.records[3].tableName = "topics"
    /\ \A i \in 1..3 : ~response.pull.records[i].deleted
    /\ pre.topics = EmptyTable /\ pre.questions = EmptyTable
    /\ "t1" \in DOMAIN db.topics /\ "q1" \in DOMAIN db.questions
    /\ "q1" \in DOMAIN db.progress

\* C15: applyRemoteChanges removes the deleted records of a pulled batch in
\* descending table rank; when the batch deletes a topic and a question of
\* that topic, at no step of the loop is the topic gone while the question
\* is still there; and the tables after the call are those the last removal
\* left.
C15_ChildRemovedBeforeParent ==
    (Succeeded /\ CallsApply(response)) =>
        LET order == DeleteOrder(response.pull.records)
            d1 == applyRemoteChanges(BeforeApply, UpsertOrder(response.pull.records))
            states == DeleteStates(d1, order)
        IN /\ \A i, j \in 1..Len(order) :
                 i < j => getTableOrder(order[i].tableName)
                             >= getTableOrder(order[j].tableName)
           /\ \A t, q \in Range(order) :
                 (/\ t.tableName = "topics" /\ q.tableName = "questions"
                  /\ t.rowId \in DOMAIN d1.topics
                  /\ q.rowId \in DOMAIN d1.questions
                  /\ d1.questions[q.rowId].topicId = t.rowId)
                 => \A i \in 1..Len(states) :
                       ~(/\ t.rowId \notin DOMAIN states[i].topics
                         /\ q.rowId \in DOMAIN states[i].questions)
           /\ Tables(db) = Tables(IF states = <<>> THEN d1 ELSE states[Len(states)])

\* A batch that lists the deletion of a topic before the deletion of its
\* question has been applied to a database that held both.
C15_Witness ==
    /\ Succeeded /\ Len(response.pull.records) >= 2
    /\ response.pull.records[1] = PullDelete("topics", "t1")
    /\ response.pull.records[2] = PullDelete("questions", "q1")
    /\ "t1" \in DOMAIN pre.topics /\ "q1" \in DOMAIN pre.questions
    /\ pre.questions["q1"].topicId = "t1"
    /\ "t1" \notin DOMAIN db.topics /\ "q1" \notin DOMAIN db.questions

\* C16: when the push batch of syncNow() holds only deleted records and the
\* server accepts them all, then after the call none of them is pending any
\* more, the queue holds no entry of their rows, no home table holds a row
\* of a deleted id, and the four tables are what they were before the call.
C16_AcceptedTombstonesLeaveNoRow ==
    (/\ Succeeded /\ ~interleaved
     /\ pendingChanges # <<>>
     /\ \A i \in 1..Len(pendingChanges) : pendingChanges[i].deleted
     /\ AcceptsAll(response, pendingChanges)) =>
        /\ \A i \in 1..Len(pendingChanges) :
              /\ ~StillPending(db, pendingChanges[i])
              /\ \A j \in 1..Len(db.pendingChanges) :
                    ~(/\ db.pendingChanges[j].rowId = pendingChanges[i].rowId
                      /\ db.pendingChanges[j].tableName
                            = serverToLocalTableName(pendingChanges[i].tableName))
              /\ pendingChanges[i].rowId
                    \notin DOMAIN db[getTable(pendingChanges[i].tableName)]
        /\ Tables(db) = Tables(pre)

\* The tombstones of rows of two tables were pushed and accepted: the queue
\* they were in is empty.
C16_Witness ==
    /\ Succeeded /\ AcceptsAll(response, pendingChanges)
    /\ Len(pendingChanges) >= 2
    /\ \A i \in 1..Len(pendingChanges) : pendingChanges[i].deleted
    /\ pendingChanges[1].tableName # pendingChanges[2].tableName
    /\ Len(pre.pendingChanges) = Len(pendingChanges)
    /\ db.pendingChanges = <<>>

\* The key upsertRecord writes the record under
UpsertKey(record) ==
    IF record.tableName = "progress" THEN ProgressKey(record) ELSE record.rowId

\* C17: after a successful syncNow() that applied a pulled batch, the row of
\* every non-deleted record of the batch, in any of the four tables, has
\* sync_version equal to the record's version and synced_at equal to the
\* timestamp of the pull; getPendingChanges returns no row record for it and
\* getPendingChangesCount does not count it.
C17_PulledRowIsStampedAndClean ==
    (Succeeded /\ CallsApply(response)) =>
        \A r \in Range(UpsertOrder(response.pull.records)) :
            LET table == getTable(r.tableName)
                key == UpsertKey(r)
            IN /\ key \in DOMAIN db[table]
               /\ db[table][key].sync_version = r.version
               /\ db[table][key].synced_at = getCurrentTimestamp
               /\ \A c \in Range(getPendingChanges(db)) :
                     ~(c.tableName = r.tableName /\ c.rowId = key /\ ~c.deleted)
               /\ getPendingChangesCount([db EXCEPT ![table] = TableDelete(@, key)])
                     = getPendingChangesCount(db)

\* A batch with a topic, a progress and a quiz session has been applied
\* over a topic that had a local edit waiting to be pushed.
C17_Witness ==
    /\ Succeeded /\ Len(response.pull.records) = 3
    /\ {response.pull.records[i].tableName : i \in 1..3}
          = {"topics", "progress", "quiz_sessions"}
    /\ \A i \in 1..3 : ~response.pull.records[i].deleted
    /\ "t1" \in DOMAIN pre.topics /\ pre.topics["t1"].synced_at = Undef
    /\ db.topics["t1"].synced_at # Undef
    /\ getPendingChanges(db) = <<>>

\* JSON.parse throws on the tags of the record.
HasMalformedTags(record) ==
    /\ record.tableName = "questions" /\ ~record.deleted
    /\ record.tags # <<>> /\ ~IsTagsJSON(record.tags)

\* C18: a pulled question whose tags do not decode is upserted all the
\* same: after the call its row holds the record's content, topic reference
\* and version, and an empty list of tags; the other records of the batch
\* are applied too - upserted rows present with their content, deleted rows
\* absent - and the call succeeds, unless the storage itself fails.
C18_MalformedTagsDefaultToEmpty ==
    (/\ pc = "done" /\ CallsApply(response) /\ result.error # "Storage error"
     /\ \E r \in Range(response.pull.records) : HasMalformedTags(r)) =>
        /\ Succeeded
        /\ \A r \in Range(response.pull.records) :
              LET table == getTable(r.tableName)
              IN IF r.deleted THEN r.rowId \notin DOMAIN db[table]
                 ELSE /\ UpsertKey(r) \in DOMAIN db[table]
                      /\ db[table][UpsertKey(r)].data = r.data
                      /\ db[table][UpsertKey(r)].sync_version = r.version
                      /\ r.tableName = "questions" =>
                            /\ db.questions[r.rowId].topicId = r.topicId
                            /\ db.questions[r.rowId].tags = decodeTags(r.tags)
                            /\ HasMalformedTags(r) => db.questions[r.rowId].tags = <<>>

\* A batch whose first record is a question with malformed tags, followed
\* by its topic and a quiz session, has been applied; the question replaced
\* a row whose tags were not empty.
C18_Witness ==
    /\ Succeeded /\ Len(response.pull.records) = 3
    /\ HasMalformedTags(response.pull.records[1])
    /\ response.pull.records[2].tableName = "topics"
    /\ response.pull.records[3].tableName = "quiz_sessions"
    /\ "q1" \in DOMAIN pre.questions /\ pre.questions["q1"].tags # <<>>
    /\ db.questions["q1"].tags = <<>>
    /\ "s1" \in DOMAIN db.quizSessions /\ "s1" \notin DOMAIN pre.quizSessions

\* C19: when the storage fails while applyRemoteChanges applies a pulled
\* batch, syncNow() fails; afterwards the four tables are what they were
\* before applyRemoteChanges began - none of the upserts and deletes of the
\* batch shows - and the stored checkpoint is still the one this call sent,
\* which is what the next call will send.
C19_FailedApplyLeavesNoTrace ==
    (pc = "done" /\ CallsApply(response) /\ result.error = "Storage error") =>
        /\ Failed
        /\ Tables(db) = Tables(BeforeApply)
        /\ getCheckpoint(db) = checkpoint
        /\ getCheckpoint(db) = getCheckpoint(pre)

\* The storage failed on a batch of three records that would have changed
\* the tables, sent with a checkpoint other than the stored one.
C19_Witness ==
    /\ Failed /\ Len(response.pull.records) = 3
    /\ Tables(applyRemoteChanges(BeforeApply, response.pull.records)) # Tables(db)
    /\ \E r \in Range(response.pull.records) :
          r.deleted /\ r.rowId \in DOMAIN db[getTable(r.tableName)]
    /\ getCheckpoint(db) # NoCheckpoint
    /\ response.pull.checkpoint # getCheckpoint(db)

\* C20: a logout() that clears held tokens leaves the database as it is -
\* every row with its synced_at and sync_version, the queue of deletes, the
\* checkpoint and lastSyncAt - so what was pending is pending still; a
\* login() leaves it too; and a syncNow() that sends a request sends all
\* that is pending when it starts.
C20_LogoutKeepsLocalState ==
    [][/\ (clientTokens # NoTokens /\ clientTokens' = NoTokens) =>
             /\ ~isAuthenticated(clientTokens')
             /\ db' = db
             /\ getPendingChanges(db') = getPendingChanges(db)
             /\ getCheckpoint(db') = getCheckpoint(db)
             /\ getLastSyncAt(db') = getLastSyncAt(db)
       /\ (clientTokens = NoTokens /\ clientTokens' # NoTokens /\ pc' = pc) =>
             db' = db
       /\ (pc = "idle" /\ pc' = "inflight") =>
             pendingChanges' = getPendingChanges(db)]_vars

\* The user has logged out after a successful sync: no token is held, and
\* the delete that was waiting in the queue, the checkpoint and lastSyncAt
\* are there.
C20_Witness ==
    /\ pc = "idle" /\ clientTokens = NoTokens /\ ~initialized
    /\ getLastSyncAt(db) # Undef /\ getCheckpoint(db) # NoCheckpoint
    /\ db.pendingChanges # <<>>
    /\ Len(getPendingChanges(db)) = 1 /\ getPendingChanges(db)[1].deleted

\* C21: when syncNow() has received a response and returns, with no CRUD
\* handler run meanwhile, the database is the one a prefix of the local
\* steps leaves, the steps taken in the order markSynced, applyRemoteChanges,
\* saveCheckpoint, saveLastSyncAt, each a transaction of its own: all four
\* when the call succeeds; and when the stored checkpoint has changed, the
\* tables are those with the pulled records of the response applied.
C21_LocalStepsInOrder ==
    (Returned /\ response # NoResponse /\ ~interleaved) =>
        LET d1 == AfterPush(pre, response, pendingChanges)
            d2 == AfterApply(d1, response)
            d3 == AfterCheckpoint(d2, response)
            d4 == saveLastSyncAt(d3, getCurrentTimestamp)
        IN /\ db \in {pre, d1, d2, d3, d4}
           /\ Succeeded => db = d4
           /\ getCheckpoint(db) # getCheckpoint(pre) => Tables(db) = Tables(d2)
           /\ db.syncMeta # pre.syncMeta => Tables(db) = Tables(d2)

\* applyRemoteChanges failed after markSynced had stamped the pushed topic:
\* the stamp is there, the pulled record and the checkpoint are not.
C21_Witness ==
    /\ Failed /\ ~interleaved /\ response # NoResponse
    /\ CallsMarkSynced(response) /\ CallsApply(response)
    /\ db = AfterPush(pre, response, pendingChanges) /\ db # pre
    /\ AfterApply(db, response) # db
    /\ AfterCheckpoint(db, response) # db

\* C22: when applyRemoteChanges applies a non-deleted record of a row that
\* has a local edit the server has not accepted (synced_at absent when the
\* apply begins), the row keeps the content of the local edit and is still
\* pending after the call.
C22_PullKeepsLocalEdit ==
    (Succeeded /\ CallsApply(response) /\ ~interleaved) =>
        \A r \in Range(response.pull.records) :
            LET table == getTable(r.tableName)
            IN (/\ ~r.deleted
                /\ r.rowId \in DOMAIN BeforeApply[table]
                /\ BeforeApply[table][r.rowId].synced_at = Undef)
               => /\ r.rowId \in DOMAIN db[table]
                  /\ db[table][r.rowId].data = BeforeApply[table][r.rowId].data
                  /\ db[table][r.rowId].synced_at = Undef

\* C23: every step of a CRUD handler that creates or changes a row of one
\* of the four tables leaves the row with synced_at absent and with
\* sync_version one more than before, 1 for a new row, and
\* getPendingChanges then returns a record of the row.
C23_LocalWriteMarksRowDirty ==
    [][(pc = "idle" /\ pc' = "idle") =>
          \A t \in EntityTables : \A id \in DOMAIN db'[t] :
              (id \notin DOMAIN db[t] \/ db[t][id] # db'[t][id]) =>
                  /\ db'[t][id].synced_at = Undef
                  /\ db'[t][id].sync_version =
                        IF id \in DOMAIN db[t]
                        THEN BumpVersion(db[t][id].sync_version) ELSE 1
                  /\ \E c \in Range(getPendingChanges(db')) :
                        c.rowId = id /\ getTable(c.tableName) = t /\ ~c.deleted]_vars

\* The version the server last confirmed for a row that is marked synced
ConfirmedVersion(row) == IF row.sync_version = Undef THEN 1 ELSE row.sync_version

\* C24: when a CRUD handler changes or deletes a row that was synced, the
\* record getPendingChanges then returns for the row - a row record or the
\* record of its queued delete - carries the sync_version the row had before
\* the change, the version the server last confirmed.
C24_SendsConfirmedVersion ==
    [][(pc = "idle" /\ pc' = "idle") =>
          \A t \in EntityTables : \A id \in DOMAIN db[t] :
              (/\ db[t][id].synced_at # Undef
               /\ (id \notin DOMAIN db'[t] \/ db'[t][id] # db[t][id])) =>
                  \A c \in Range(getPendingChanges(db')) :
                      (c.rowId = id /\ getTable(c.tableName) = t) =>
                          c.version = ConfirmedVersion(db[t][id])]_vars

\* C25: in every state getPendingChanges returns a non-deleted record of a
\* row exactly when the row is in one of the four tables with synced_at
\* absent, one record per such row; its deleted records are the entries of
\* the queue of deletes, one per entry and in the queue's order; and
\* getPendingChangesCount is the number of records it returns.
C25_PendingIffUnsynced ==
    LET records == getPendingChanges(db)
        rows == SelectSeq(records, NotDeleted)
    IN /\ \A i \in 1..Len(rows) :
             LET t == getTable(rows[i].tableName)
             IN /\ t \in EntityTables
                /\ rows[i].rowId \in DOMAIN db[t]
                /\ db[t][rows[i].rowId].synced_at = Undef
                /\ \A j \in 1..Len(rows) :
                      (rows[j].tableName = rows[i].tableName
                         /\ rows[j].rowId = rows[i].rowId) => i = j
       /\ \A t \in EntityTables : \A id \in DOMAIN db[t] :
             db[t][id].synced_at = Undef =>
                 \E i \in 1..Len(rows) :
                     getTable(rows[i].tableName) = t /\ rows[i].rowId = id
       /\ SelectSeq(records, IsDeleted)
             = [i \in 1..Len(db.pendingChanges) |->
                   PendingDeleteRecord(db.pendingChanges[i])]
       /\ getPendingChangesCount(db) = Len(records)

\* A topic with a local edit, a quiz session that is synced and the queued
\* delete of a question that was synced once: two records are pending.
C25_Witness ==
    /\ pc = "idle"
    /\ "t1" \in DOMAIN db.topics /\ db.topics["t1"].synced_at = Undef
    /\ "s1" \in DOMAIN db.quizSessions /\ db.quizSessions["s1"].synced_at # Undef
    /\ Len(db.pendingChanges) = 1 /\ db.pendingChanges[1].tableName = "questions"
    /\ db.pendingChanges[1].version > 1
    /\ db.questions = EmptyTable
    /\ getPendingChangesCount(db) = 2

\* C26: no step lowers the sync_version of a row: a row that is in its table
\* before and after a CRUD handler, markSynced or applyRemoteChanges has a
\* sync_version at least as high as before - a pulled upsert included.
C26_SyncVersionNeverDecreases ==
    [][\A t \in EntityTables : \A id \in DOMAIN db[t] \cap DOMAIN db'[t] :
          db'[t][id].sync_version >= db[t][id].sync_version]_vars

\* C27: when the pulled batch holds a record, deleted or not, of a table the
\* client does not know, syncNow() succeeds all the same; the tables are
\* those the batch without that record leaves - no row written or removed
\* for it, every other record applied - no table is added, and the stored
\* checkpoint is that of the response.
C27_UnknownTableIsSkipped ==
    (/\ pc = "done" /\ CallsApply(response)
     /\ \E r \in Range(response.pull.records) : ~HasKnownTable(r)) =>
        /\ Succeeded
        /\ DOMAIN db = DOMAIN pre
        /\ Tables(db) = Tables(applyRemoteChanges(BeforeApply,
                            SelectSeq(response.pull.records, HasKnownTable)))
        /\ getCheckpoint(db) = response.pull.checkpoint

\* A batch with the deletion, in the unknown table, of a row that has the
\* id of topic t1, followed by a quiz session: topic t1 is still there, the
\* session has been written and the checkpoint has moved.
C27_Witness ==
    /\ Succeeded
    /\ response.pull.records
          = <<PullDelete(UnknownTable, "t1"), PullUpsert("quiz_sessions", "s1", "", 1)>>
    /\ "t1" \in DOMAIN pre.topics /\ "t1" \in DOMAIN db.topics
    /\ "s1" \notin DOMAIN pre.quizSessions /\ "s1" \in DOMAIN db.quizSessions
    /\ getCheckpoint(db) # getCheckpoint(pre)

\* C28: since the adapter was constructed or logout() last reset it,
\* initialize() has loaded the tokens from the provider once at most: every
\* other call, getStatus()'s included, found the adapter initialized - by an
\* earlier initialize() or by syncNow() - and did nothing.
C28_LoadsTokensOnce == loads <= 1

\* A step that is not a write of a CRUD handler: only syncNow() moves pc.
NoLocalWrite == pc' # pc \/ db' = db

\* C29: if from some point on no CRUD handler writes, then - the client
\* authenticated, syncNow() called again and again, a request answered in
\* the end and every pushed row accepted - from some point on
\* getPendingChangesCount is 0 for good: no row with synced_at absent, no
\* queued delete, whatever the later calls pull and apply.
C29_EventuallyNothingPending ==
    <>[][NoLocalWrite]_vars => <>[](getPendingChangesCount(db) = 0)

\* A call has pushed a topic and a quiz session, both accepted, and applied
\* a pulled record: nothing is pending.
C29_Witness ==
    /\ Succeeded /\ CallsApply(response)
    /\ getPendingChangesCount(pre) = 2
    /\ getPendingChangesCount(db) = 0
    /\ db.topics # EmptyTable /\ db.quizSessions # EmptyTable

\* C30: when a pulled batch holds a non-deleted and a deleted record of the
\* same table and rowId, the row is not in its table after the call,
\* whichever of the two comes first in the batch.
C30_DeleteWinsOverUpsert ==
    (Succeeded /\ CallsApply(response)) =>
        \A u, d \in Range(response.pull.records) :
            (/\ ~u.deleted /\ d.deleted
             /\ u.tableName = d.tableName /\ u.rowId = d.rowId)
            => d.rowId \notin DOMAIN db[getTable(d.tableName)]

\* A batch that lists the deletion of topic t1 before the record that
\* writes it, and then q1's progress, applied where the topic was absent:
\* the topic is absent, the progress is there.
C30_Witness ==
    /\ Succeeded
    /\ response.pull.records
          = <<PullDelete("topics", "t1"), PullUpsert("topics", "t1", "", 1),
              PullUpsert("progress", "q1", "t1", 1)>>
    /\ "t1" \notin DOMAIN pre.topics
    /\ "t1" \notin DOMAIN db.topics
    /\ "q1" \in DOMAIN db.progress

====
